---- MODULE Spec2Model ----
(***************************************************************************)
(* Model of the blood-work PDF pipeline of backend/app/services:           *)
(*   pdf_parser.py  extract_pdf_data, parse_blood_work_table,              *)
(*                  find_header_row, parse_test_row,                       *)
(*                  extract_unit_from_range, extract_test_date             *)
(*   database.py    InfluxDBService.store_bloodwork_record                 *)
(*   bloodwork.py   handle_bloodwork                                       *)
(* A Python str is a sequence of one-character strings, so that strip,     *)
(* split, replace, the regular expressions and the date formats are        *)
(* computed character by character.  A float is the pair                  *)
(* << mantissa, number of fraction digits >> without trailing fraction     *)
(* zeros, which is exact for the decimal literals float() is given.        *)
(***************************************************************************)
EXTENDS Integers, Sequences, FiniteSets, TLC

VARIABLES
    pc,             \* position of the operation under way
    row,            \* parse_test_row: the raw table row (cells)
    test_result,    \* parse_test_row: what it returned
    text,           \* extract_test_date: the page text
    user_bday,      \* extract_test_date: the birthday (None or DD/MM/YYYY)
    now,            \* datetime.now() as [day, month, year]
    date_out,       \* extract_test_date: its outcome
    tables,         \* parse_blood_work_table: extracted_data['tables']
    record,         \* the BloodworkRecord built by parse_blood_work_table
    write_ok,       \* whether client.write completes
    db,             \* the storage client: the write calls it received
    store_ret,      \* what store_bloodwork_record returned
    file,           \* handle_bloodwork: the uploaded file
    extracted_data, \* handle_bloodwork: what extract_pdf_data returned
    exc,            \* handle_bloodwork: str(e) of the exception in flight
    events,         \* handle_bloodwork: the calls made so far, in order
    response        \* handle_bloodwork: what the caller gets

vars == << pc, row, test_result, text, user_bday, now, date_out, tables,
           record, write_ok, db, store_ret, file, extracted_data, exc,
           events, response >>

-----------------------------------------------------------------------------
(* Bounds of the model *)

MaxCells == 3
MaxWords == 3
MaxRows == 5
MaxTables == 2
MaxResults == 3

-----------------------------------------------------------------------------
(* Python str primitives *)

\* None: a tuple no str equals (a str holds one-character elements only)
None == << "None" >>

\* the truth value Python gives an optional str
Truthy(s) == s # None /\ s # << >>

Whitespace == {" ", "\n", "\t"}

Digits == {"0", "1", "2", "3", "4", "5", "6", "7", "8", "9"}

Letters ==
    {"a", "b", "c", "d", "e", "f", "g", "h", "i", "j", "k", "l", "m",
     "n", "o", "p", "q", "r", "s", "t", "u", "v", "w", "x", "y", "z",
     "A", "B", "C", "D", "E", "F", "G", "H", "I", "J", "K", "L", "M",
     "N", "O", "P", "Q", "R", "S", "T", "U", "V", "W", "X", "Y", "Z"}

DigitVal(c) ==
    CASE c = "0" -> 0 [] c = "1" -> 1 [] c = "2" -> 2 [] c = "3" -> 3
      [] c = "4" -> 4 [] c = "5" -> 5 [] c = "6" -> 6 [] c = "7" -> 7
      [] c = "8" -> 8 [] c = "9" -> 9

DigitChar(n) ==
    CASE n = 0 -> "0" [] n = 1 -> "1" [] n = 2 -> "2" [] n = 3 -> "3"
      [] n = 4 -> "4" [] n = 5 -> "5" [] n = 6 -> "6" [] n = 7 -> "7"
      [] n = 8 -> "8" [] n = 9 -> "9"

RECURSIVE LStrip(_)
LStrip(s) ==
    IF s # << >> /\ Head(s) \in Whitespace THEN LStrip(Tail(s)) ELSE s

RECURSIVE RStrip(_)
RStrip(s) ==
    IF s # << >> /\ s[Len(s)] \in Whitespace
    THEN RStrip(SubSeq(s, 1, Len(s) - 1))
    ELSE s

\* str.strip()
Strip(s) == RStrip(LStrip(s))

\* str.split(sep) for a one-character sep: "".split(sep) is [""]
RECURSIVE SplitAcc(_, _, _)
SplitAcc(s, sep, cur) ==
    IF s = << >> THEN << cur >>
    ELSE IF Head(s) = sep THEN << cur >> \o SplitAcc(Tail(s), sep, << >>)
    ELSE SplitAcc(Tail(s), sep, Append(cur, Head(s)))

Split(s, sep) == SplitAcc(s, sep, << >>)

\* str.replace(ch, '')
Remove(s, ch) == SelectSeq(s, LAMBDA c : c # ch)

\* str.isdigit()
IsDigit(s) == s # << >> /\ \A i \in DOMAIN s : s[i] \in Digits

\* sub in s
Contains(s, sub) ==
    \E i \in 0..(Len(s) - Len(sub)) : SubSeq(s, i + 1, i + Len(sub)) = sub

\* str.upper() on the letters of the model's alphabet
UpperChar(c) ==
    CASE c = "a" -> "A" [] c = "b" -> "B" [] c = "c" -> "C" [] c = "d" -> "D"
      [] c = "e" -> "E" [] c = "f" -> "F" [] c = "g" -> "G" [] c = "h" -> "H"
      [] c = "i" -> "I" [] c = "j" -> "J" [] c = "k" -> "K" [] c = "l" -> "L"
      [] c = "m" -> "M" [] c = "n" -> "N" [] c = "o" -> "O" [] c = "p" -> "P"
      [] c = "q" -> "Q" [] c = "r" -> "R" [] c = "s" -> "S" [] c = "t" -> "T"
      [] c = "u" -> "U" [] c = "v" -> "V" [] c = "w" -> "W" [] c = "x" -> "X"
      [] c = "y" -> "Y" [] c = "z" -> "Z" [] OTHER -> c

Upper(s) == [i \in DOMAIN s |-> UpperChar(s[i])]

\* sep.join(parts)
RECURSIVE Join(_, _)
Join(sep, parts) ==
    IF parts = << >> THEN << >>
    ELSE IF Len(parts) = 1 THEN parts[1]
    ELSE parts[1] \o sep \o Join(sep, Tail(parts))

\* length of the longest prefix of s made of characters of set
RECURSIVE Span(_, _)
Span(s, set) ==
    IF s # << >> /\ Head(s) \in set THEN 1 + Span(Tail(s), set) ELSE 0

-----------------------------------------------------------------------------
(* float() of a decimal literal, and the leading-number pattern *)

RECURSIVE ToInt(_)
ToInt(ds) ==
    IF ds = << >> THEN 0
    ELSE 10 * ToInt(SubSeq(ds, 1, Len(ds) - 1)) + DigitVal(ds[Len(ds)])

RECURSIVE DropTrailingZeros(_)
DropTrailingZeros(ds) ==
    IF ds # << >> /\ ds[Len(ds)] = "0"
    THEN DropTrailingZeros(SubSeq(ds, 1, Len(ds) - 1))
    ELSE ds

\* float(s) for s of the shape \d+\.?\d*
Float(s) ==
    LET ip == Span(s, Digits)
        fr == DropTrailingZeros(SubSeq(s, ip + 2, Len(s)))
    IN  << ToInt(SubSeq(s, 1, ip) \o fr), Len(fr) >>

\* the truth value Python gives value: None and 0.0 are both false
ValueTruthy(value) == value # None /\ value[1] # 0

\* re.match(r'^(\d+\.?\d*)', part): the length of group(1), 0 when no match
NumberMatch(part) ==
    LET n1 == Span(part, Digits)
    IN  IF n1 = 0 THEN 0
        ELSE IF n1 < Len(part) /\ part[n1 + 1] = "."
        THEN n1 + 1 + Span(SubSeq(part, n1 + 2, Len(part)), Digits)
        ELSE n1

-----------------------------------------------------------------------------
(* pdf_parser.py: extract_unit_from_range *)

units ==
    << << "%" >>,
       << "m", "g", "/", "d", "L" >>,
       << "m", "g", "/", "d", "l" >>,
       << "U", "/", "L" >>,
       << "g", "/", "d", "L" >>,
       << "g", "/", "d", "l" >>,
       << "m", "m", "o", "l", "/", "L" >>,
       << "μ", "g", "/", "d", "L" >>,
       << "n", "g", "/", "m", "L" >>,
       << "m", "L", "/", "m", "i", "n" >> >>

\* the characters of the class [a-zA-Z/μ]
UnitChars == Letters \cup {"/", "μ"}

\* re.search(r'([a-zA-Z/μ]+)', s): group(1), or None when nothing matches
RECURSIVE UnitSearch(_)
UnitSearch(s) ==
    IF s = << >> THEN None
    ELSE IF Head(s) \in UnitChars THEN SubSeq(s, 1, Span(s, UnitChars))
    ELSE UnitSearch(Tail(s))

extract_unit_from_range(reference_range) ==
    IF reference_range = << >> THEN << >>
    ELSE IF \E k \in DOMAIN units : Contains(reference_range, units[k])
    THEN units[CHOOSE k \in DOMAIN units :
                 /\ Contains(reference_range, units[k])
                 /\ \A j \in 1..(k - 1) : ~Contains(reference_range, units[j])]
    ELSE IF UnitSearch(reference_range) # None THEN UnitSearch(reference_range)
    ELSE << >>

-----------------------------------------------------------------------------
(* pdf_parser.py: parse_test_row *)

\* the None that parse_test_row returns for a rejected row
NoResult == [none |-> TRUE]

\* BloodworkResult(test_name, value, unit, reference_range, test_date)
BloodworkResult(test_name, value, unit, reference_range, test_date) ==
    [test_name |-> test_name, value |-> value, unit |-> unit,
     reference_range |-> reference_range, test_date |-> test_date]

\* line 111: clean_row = [cell.strip() if cell else "" for cell in row]
CleanRow(r) == [i \in DOMAIN r |-> IF Truthy(r[i]) THEN Strip(r[i]) ELSE << >>]

\* line 116: meaningful_cells = [cell for cell in clean_row if cell.strip()]
MeaningfulCells(clean_row) ==
    SelectSeq(clean_row, LAMBDA cell : Strip(cell) # << >>)

\* lines 113-114 alone: the early return without the count of lines 116-119
TooFewCellsNoCount(clean_row) ==
    \/ Len(clean_row) < 2
    \/ \A i \in DOMAIN clean_row : clean_row[i] = << >>

\* lines 113-119: the two early returns on the cells
TooFewCells(clean_row) ==
    \/ Len(clean_row) < 2
    \/ \A i \in DOMAIN clean_row : clean_row[i] = << >>
    \/ Len(MeaningfulCells(clean_row)) <= 1

\* lines 125-129: the stripped non-empty lines of one cell
CellParts(cell) ==
    SelectSeq([k \in DOMAIN Split(cell, "\n") |-> Strip(Split(cell, "\n")[k])],
              LAMBDA part : part # << >>)

\* lines 121-129: all_parts
RECURSIVE AllParts(_)
AllParts(clean_row) ==
    IF clean_row = << >> THEN << >>
    ELSE (IF Head(clean_row) # << >> THEN CellParts(Head(clean_row)) ELSE << >>)
         \o AllParts(Tail(clean_row))

\* lines 132-138: filtered_parts drops the parts that are all digits
FilteredParts(all_parts) ==
    SelectSeq([k \in DOMAIN all_parts |-> Strip(all_parts[k])],
              LAMBDA part : part # << >> /\ ~IsDigit(part))

\* line 154: the test that guards the numeric extraction
ValueMissing(value) == ~ValueTruthy(value)

\* line 171: the test that guards the collection of the reference range
ValueFound(value) == ValueTruthy(value)

\* lines 152-175: one iteration of the scan over filtered_parts[1:]
ScanStep(st, part) ==
    LET n == NumberMatch(part)
        remaining == Strip(SubSeq(part, n + 1, Len(part)))
    IN  IF ValueMissing(st.value) /\ n > 0
        THEN [value |-> Float(SubSeq(part, 1, n)),
              reference_range |->
                  IF remaining # << >> THEN remaining ELSE st.reference_range]
        ELSE IF ValueFound(st.value)
        THEN [value |-> st.value,
              reference_range |->
                  IF st.reference_range # << >>
                  THEN st.reference_range \o << " " >> \o part
                  ELSE part]
        ELSE st

\* lines 149-175: value and reference_range after the scan
RECURSIVE Scan(_, _)
Scan(st, parts) ==
    IF parts = << >> THEN st ELSE Scan(ScanStep(st, Head(parts)), Tail(parts))

\* lines 147-148: test_name
TestName(filtered_parts) == Strip(Remove(filtered_parts[1], "*"))

parse_test_row(r, date) ==
    LET clean_row == CleanRow(r)
        filtered_parts == FilteredParts(AllParts(clean_row))
        st == Scan([value |-> None, reference_range |-> << >>],
                   Tail(filtered_parts))
    IN  IF TooFewCells(clean_row) THEN NoResult
        ELSE IF Len(filtered_parts) < 2 THEN NoResult
        ELSE IF st.value = None THEN NoResult
        ELSE BloodworkResult(TestName(filtered_parts), st.value,
                             extract_unit_from_range(st.reference_range),
                             st.reference_range, date)

-----------------------------------------------------------------------------
(* pdf_parser.py: extract_test_date *)

\* the characters \b counts as part of a word
WordChars == Letters \cup Digits \cup {"_"}

\* \b(\d{2}/\d{2}/\d{4})\b matches the ten characters that start at i
DateAt(t, i) ==
    /\ i + 9 <= Len(t)
    /\ \A k \in {0, 1, 3, 4, 6, 7, 8, 9} : t[i + k] \in Digits
    /\ t[i + 2] = "/" /\ t[i + 5] = "/"
    /\ i = 1 \/ t[i - 1] \notin WordChars
    /\ i + 9 = Len(t) \/ t[i + 10] \notin WordChars

\* re.findall(date_pattern, text): the matches left to right, not overlapping
RECURSIVE FindAllFrom(_, _)
FindAllFrom(t, i) ==
    IF i > Len(t) THEN << >>
    ELSE IF DateAt(t, i) THEN << SubSeq(t, i, i + 9) >> \o FindAllFrom(t, i + 10)
    ELSE FindAllFrom(t, i + 1)

FindAll(t) == FindAllFrom(t, 1)

\* a scan that stops at the first date that is not the birthday
RECURSIVE FirstDateMatch(_, _, _)
FirstDateMatch(dates, bday, date_match) ==
    IF dates = << >> THEN date_match
    ELSE IF Head(dates) # bday THEN Head(dates)
    ELSE FirstDateMatch(Tail(dates), bday, date_match)

\* lines 228-230: every date that is not the birthday overwrites date_match
RECURSIVE ScanDates(_, _, _)
ScanDates(dates, bday, date_match) ==
    IF dates = << >> THEN date_match
    ELSE ScanDates(Tail(dates), bday,
                   IF Head(dates) # bday THEN Head(dates) ELSE date_match)

IsLeap(y) == (y % 4 = 0 /\ y % 100 # 0) \/ y % 400 = 0

DaysInMonth(m, y) ==
    IF m = 2 THEN (IF IsLeap(y) THEN 29 ELSE 28)
    ELSE IF m \in {4, 6, 9, 11} THEN 30 ELSE 31

\* the day, month and year fields of a string of the shape dd/dd/dddd
DateFields(s) ==
    [day |-> ToInt(SubSeq(s, 1, 2)), month |-> ToInt(SubSeq(s, 4, 5)),
     year |-> ToInt(SubSeq(s, 7, 10))]

\* datetime.strptime(s, '%d/%m/%Y') raises ValueError: no such day
StrptimeRaises(s) ==
    LET f == DateFields(s)
    IN  ~(f.year >= 1 /\ f.month \in 1..12
            /\ f.day \in 1..DaysInMonth(f.month, f.year))

\* datetime.strptime(s, '%d/%m/%Y') where it does not raise
Strptime(s) == DateFields(s)

Pad2(n) == << DigitChar(n \div 10), DigitChar(n % 10) >>

Pad4(n) ==
    << DigitChar(n \div 1000), DigitChar((n \div 100) % 10),
       DigitChar((n \div 10) % 10), DigitChar(n % 10) >>

\* strftime("%d/%m/%Y")
StrftimeDMY(dt) ==
    Pad2(dt.day) \o << "/" >> \o Pad2(dt.month) \o << "/" >> \o Pad4(dt.year)

\* strftime('%Y-%m-%d')
StrftimeYMD(dt) ==
    Pad4(dt.year) \o << "-" >> \o Pad2(dt.month) \o << "-" >> \o Pad2(dt.day)

\* what a call gives its caller: a returned value or a raised exception
Return(v) == [kind |-> "return", value |-> v]
Raise(e) == [kind |-> "raise", value |-> e]

\* extract_test_date(text, user_bday) when datetime.now() is today
extract_test_date(t, bday, today) ==
    LET date_match == ScanDates(FindAll(t), bday, None)
    IN  IF date_match = None THEN Return(StrftimeDMY(today))
        ELSE IF StrptimeRaises(date_match)
        THEN Raise(<< "V", "a", "l", "u", "e", "E", "r", "r", "o", "r" >>)
        ELSE Return(StrftimeYMD(Strptime(date_match)))

-----------------------------------------------------------------------------
(* pdf_parser.py: find_header_row and parse_blood_work_table.  Row indices
   are those of the source, from 0: row i of the source is table[i + 1]. *)

REZULTATI == << "R", "E", "Z", "U", "L", "T", "A", "T", "I" >>

VLERAT_REFERUESE ==
    << "V", "L", "E", "R", "A", "T", " ",
       "R", "E", "F", "E", "R", "U", "E", "S", "E" >>

\* line 101: row_text = ' '.join([cell or '' for cell in row]).upper()
RowText(r) ==
    Upper(Join(<< " " >>,
               [i \in DOMAIN r |-> IF Truthy(r[i]) THEN r[i] ELSE << >>]))

\* lines 99-102: row i of the table holds a header marker
IsHeaderRow(table, i) ==
    /\ Len(table[i + 1]) >= 2
    /\ \/ Contains(RowText(table[i + 1]), REZULTATI)
       \/ Contains(RowText(table[i + 1]), VLERAT_REFERUESE)

\* the None that find_header_row returns, as an index no row has
NoHeader == 0 - 1

find_header_row(table) ==
    IF \E i \in 0..(Len(table) - 1) : IsHeaderRow(table, i)
    THEN CHOOSE i \in 0..(Len(table) - 1) :
             /\ IsHeaderRow(table, i)
             /\ \A j \in 0..(i - 1) : ~IsHeaderRow(table, j)
    ELSE NoHeader

\* lines 77-81: header_row_idx, 0 when no header is found
HeaderRowIdx(table) ==
    IF find_header_row(table) = NoHeader THEN 0 ELSE find_header_row(table)

\* line 84: the first row_idx of range(header_row_idx + 1, len(table))
FirstDataRow(table) == HeaderRowIdx(table) + 1

\* a loop body that leaves the table at the first row it does not accept
RECURSIVE TableLoopBreaking(_, _, _)
TableLoopBreaking(table, row_idx, date) ==
    IF row_idx >= Len(table) THEN << >>
    ELSE IF Len(table[row_idx + 1]) < 2 THEN << >>
    ELSE IF parse_test_row(table[row_idx + 1], date) # NoResult
    THEN << parse_test_row(table[row_idx + 1], date) >>
            \o TableLoopBreaking(table, row_idx + 1, date)
    ELSE << >>

\* lines 84-91: what the rows from row_idx on append to blood_results
RECURSIVE TableLoop(_, _, _)
TableLoop(table, row_idx, date) ==
    IF row_idx >= Len(table) THEN << >>
    ELSE IF Len(table[row_idx + 1]) < 2
    THEN TableLoop(table, row_idx + 1, date)
    ELSE IF parse_test_row(table[row_idx + 1], date) # NoResult
    THEN << parse_test_row(table[row_idx + 1], date) >>
            \o TableLoop(table, row_idx + 1, date)
    ELSE TableLoop(table, row_idx + 1, date)

\* lines 69-91: blood_results after the loop over the tables
RECURSIVE TablesLoop(_, _)
TablesLoop(ts, date) ==
    IF ts = << >> THEN << >>
    ELSE TableLoop(Head(ts), FirstDataRow(Head(ts)), date)
            \o TablesLoop(Tail(ts), date)

\* BloodworkRecord(patient_name, test_date, results)
BloodworkRecord(patient_name, test_date, results) ==
    [patient_name |-> patient_name, test_date |-> test_date,
     results |-> results]

parse_blood_work_table(data, name) ==
    BloodworkRecord(name, data.date, TablesLoop(data.tables, data.date))

-----------------------------------------------------------------------------
(* database.py: InfluxDBService.store_bloodwork_record *)

\* float(result.value) raises TypeError: the value is no number
FloatRaises(value) == value = None

\* tags that carry reference_range whatever it holds
TagsAlwaysRange(rec, result) ==
    [patient_name |-> rec.patient_name, test_name |-> result.test_name,
     unit |-> result.unit, reference_range |-> result.reference_range]

\* lines 57-61 and 69-70: the tags of one point
Tags(rec, result) ==
    IF Truthy(result.reference_range)
    THEN [patient_name |-> rec.patient_name, test_name |-> result.test_name,
          unit |-> result.unit, reference_range |-> result.reference_range]
    ELSE [patient_name |-> rec.patient_name, test_name |-> result.test_name,
          unit |-> result.unit]

\* lines 55-70: the point of one result
Point(rec, result) ==
    [measurement |-> "bloodwork", tags |-> Tags(rec, result),
     fields |-> [value |-> result.value], time |-> rec.test_date]

\* lines 53-72: points, when no float() raises
RECURSIVE PointsLoop(_, _)
PointsLoop(rec, results) ==
    IF results = << >> THEN << >>
    ELSE << Point(rec, Head(results)) >> \o PointsLoop(rec, Tail(results))

\* lines 51-79: what store_bloodwork_record returns and the write calls the
\* client receives, when client.write completes (ok) or raises (~ok)
store_bloodwork_record(rec, ok) ==
    IF \E i \in DOMAIN rec.results : FloatRaises(rec.results[i].value)
    THEN [ret |-> Return(FALSE), writes |-> << >>]
    ELSE [ret |-> Return(ok),
          writes |-> << [points |-> PointsLoop(rec, rec.results),
                         completed |-> ok] >>]

-----------------------------------------------------------------------------
(* pdf_parser.py: extract_pdf_data; bloodwork.py: handle_bloodwork *)

\* line 21: the default of MAX_FILE_SIZE
max_size == 10485760

\* line 57: Exception("Could not extract text from PDF")
CouldNotExtract == << "Could not extract text from PDF" >>

\* lines 19-57: every failure inside the try, the 413 of line 25 included,
\* leaves as the exception of line 57
extract_pdf_data(f, bday, today) ==
    IF f.content_len > max_size THEN Raise(CouldNotExtract)
    ELSE IF ~f.readable THEN Raise(CouldNotExtract)
    ELSE IF extract_test_date(f.full_text, bday, today).kind = "raise"
    THEN Raise(CouldNotExtract)
    ELSE Return([full_text |-> f.full_text, tables |-> f.tables,
                 date |-> extract_test_date(f.full_text, bday, today).value])

\* HTTPException(status_code, detail)
HTTPException(status_code, detail) ==
    [status_code |-> status_code, detail |-> detail]

\* lines 19-22 of bloodwork.py: HTTPException(400, "No table data found in PDF")
NoTableData == HTTPException(400, << "No table data found in PDF" >>)

\* str(e) of an HTTPException: "<status_code>: <detail>"
StrHTTPException(e) ==
    << IF e.status_code = 400 THEN "400" ELSE "500", ": " >> \o e.detail

\* lines 35-40 of bloodwork.py: the exception that replaces any exception
ErrorProcessing(str_e) ==
    HTTPException(500, << "Error processing file: " >> \o str_e)

\* a test that lets every extraction through
TablesMissingNever(data) == FALSE

\* line 18 of bloodwork.py: not extracted_data or not extracted_data.get('tables')
TablesMissing(data) == data.tables = << >>

-----------------------------------------------------------------------------
(* Inputs of parse_test_row *)

\* the date handed to parse_test_row
TestDate == << "2", "0", "2", "4", "-", "0", "3", "-", "1", "5" >>

CellPool ==
    { None,                                   \* a null cell
      << " " >>,                              \* blank
      << "G", "l", "u" >>,                    \* a name
      << "*", "*" >>,                         \* asterisks only
      << "H", "b", "*" >>,                    \* a flagged name
      << "n", "e", "g" >>,                    \* a non-numeric reading
      << "7" >>,                              \* a row index
      << "0", ".", "0" >>,                    \* a reading of zero
      << "7", ".", "5" >>,                    \* a reading
      << "5", ".", "2", " ", "g", "/", "d", "L" >>,  \* a reading and its unit
      << "G", "l", "u", "\n", " ", "9", "5", "." >> \* two lines in one cell
    }

RECURSIVE SeqsUpTo(_, _)
SeqsUpTo(S, n) ==
    IF n = 0 THEN { << >> }
    ELSE LET shorter == SeqsUpTo(S, n - 1)
         IN  shorter \cup
             { Append(q, x) : q \in { t \in shorter : Len(t) = n - 1 }, x \in S }

Rows == SeqsUpTo(CellPool, MaxCells)

-----------------------------------------------------------------------------
(* Values of the variables an operation does not use *)

Idle == << >>

IdleRow == /\ row = Idle /\ test_result = NoResult
IdleDate == /\ text = Idle /\ user_bday = None /\ now = Idle /\ date_out = Idle
IdleTable == /\ tables = Idle /\ record = Idle
IdleStore == /\ write_ok = TRUE /\ db = Idle /\ store_ret = Idle
IdleUpload ==
    /\ file = Idle /\ extracted_data = Idle /\ exc = Idle
    /\ events = Idle /\ response = Idle

-----------------------------------------------------------------------------
(* parse_test_row applied to one row *)

InitRow ==
    /\ pc = "parse_test_row"
    /\ row \in Rows
    /\ test_result = NoResult
    /\ IdleDate /\ IdleTable /\ IdleStore /\ IdleUpload

ParseTestRow ==
    /\ pc = "parse_test_row"
    /\ test_result' = parse_test_row(row, TestDate)
    /\ pc' = "done"
    /\ UNCHANGED << row, text, user_bday, now, date_out, tables, record,
                    write_ok, db, store_ret, file, extracted_data, exc,
                    events, response >>

NextRow == ParseTestRow

SpecRow == InitRow /\ [][NextRow]_vars

-----------------------------------------------------------------------------
(* Claims about parse_test_row (SpecRow) *)

\* the tokens of a row as the value scan sees them, name first
RowTokens(r) == FilteredParts(AllParts(CleanRow(r)))

\* the row passes the early returns and reaches the scan for a value
ReachesScan(r) == ~TooFewCells(CleanRow(r)) /\ Len(RowTokens(r)) >= 2

\* the positions, after the name, of the tokens with a leading number
NumericPositions(r) ==
    { k \in 2..Len(RowTokens(r)) : NumberMatch(RowTokens(r)[k]) > 0 }

FirstNumeric(r) ==
    CHOOSE k \in NumericPositions(r) : \A j \in NumericPositions(r) : k <= j

\* what follows the number inside the token at position k, then every later
\* token, joined by single spaces
RangeAfter(r, k) ==
    LET tok == RowTokens(r)[k]
        rest == Strip(SubSeq(tok, NumberMatch(tok) + 1, Len(tok)))
    IN  Join(<< " " >>,
             (IF rest # << >> THEN << rest >> ELSE << >>)
                 \o SubSeq(RowTokens(r), k + 1, Len(RowTokens(r))))

\* C1: for every row that reaches the value scan and has a token with a
\* leading number after the name, the FIRST such token supplies value (a
\* value of 0.0 included), no later token overwrites it, and every token
\* after it is appended to reference_range in order.
C1_FirstNumericTokenWins ==
    (pc = "done" /\ ReachesScan(row) /\ NumericPositions(row) # {}) =>
        LET k == FirstNumeric(row)
            tok == RowTokens(row)[k]
        IN  /\ test_result # NoResult
            /\ test_result.value = Float(SubSeq(tok, 1, NumberMatch(tok)))
            /\ test_result.reference_range = RangeAfter(row, k)

\* C4: every result parse_test_row emits has a non-empty test_name without
\* any '*' and a value that is present; so a row whose name token is made
\* of asterisks only yields no result.
C4_NameNonEmptyValuePresent ==
    (pc = "done" /\ test_result # NoResult) =>
        /\ test_result.test_name # << >>
        /\ \A i \in DOMAIN test_result.test_name :
               test_result.test_name[i] # "*"
        /\ test_result.value # None

\* the cells of the row that are not null and hold a non-blank character
NonEmptyCells(r) ==
    { i \in DOMAIN r :
        r[i] # None /\ \E j \in DOMAIN r[i] : r[i][j] \notin Whitespace }

\* some line of some cell starts, after blanks, with a digit
HasNumericToken(r) ==
    \E i \in DOMAIN r :
        /\ r[i] # None
        /\ \E j \in DOMAIN r[i] :
               /\ r[i][j] \in Digits
               /\ \E b \in 0..(j - 1) :
                      /\ b = 0 \/ r[i][b] = "\n"
                      /\ \A k \in (b + 1)..(j - 1) : r[i][k] \in Whitespace

\* C6: parse_test_row returns None for every row with fewer than 2 non-empty
\* cells and for every row without a token that starts with a number; a
\* result comes only from a row with at least 2 non-empty cells and at
\* least one such token.
C6_RejectsShortAndNonNumericRows ==
    pc = "done" =>
        /\ Cardinality(NonEmptyCells(row)) < 2 => test_result = NoResult
        /\ ~HasNumericToken(row) => test_result = NoResult

\* C6 witness: a row of two cells, one null, whose only non-empty cell holds
\* a name line and a numeric line, was parsed and rejected.
C6_Witness ==
    /\ pc = "done"
    /\ Len(row) = 2
    /\ Cardinality(NonEmptyCells(row)) = 1
    /\ HasNumericToken(row)
    /\ Len(AllParts(CleanRow(row))) = 2
    /\ test_result = NoResult

-----------------------------------------------------------------------------
(* extract_test_date applied to one page text *)

Birthday == << "0", "1", "/", "0", "1", "/", "1", "9", "9", "0" >>
DateA == << "1", "5", "/", "0", "3", "/", "2", "0", "2", "4" >>
DateB == << "0", "2", "/", "0", "9", "/", "2", "0", "2", "5" >>
\* shaped like a date, but no day of the calendar
DateBad == << "3", "1", "/", "0", "2", "/", "2", "0", "2", "4" >>

WordPool == { Birthday, DateA, DateB, DateBad, << " " >>, << "x" >> }

RECURSIVE Concat(_)
Concat(ws) == IF ws = << >> THEN << >> ELSE Head(ws) \o Concat(Tail(ws))

Texts == { Concat(ws) : ws \in SeqsUpTo(WordPool, MaxWords) }

Birthdays == { None, Birthday, DateA }

Todays == { [day |-> 4, month |-> 11, year |-> 2026],
            [day |-> 29, month |-> 2, year |-> 2024] }

InitDate ==
    /\ pc = "extract_test_date"
    /\ text \in Texts
    /\ user_bday \in Birthdays
    /\ now \in Todays
    /\ date_out = Idle
    /\ IdleRow /\ IdleTable /\ IdleStore /\ IdleUpload

ExtractTestDate ==
    /\ pc = "extract_test_date"
    /\ date_out' = extract_test_date(text, user_bday, now)
    /\ pc' = "done"
    /\ UNCHANGED << row, test_result, text, user_bday, now, tables, record,
                    write_ok, db, store_ret, file, extracted_data, exc,
                    events, response >>

NextDate == ExtractTestDate

SpecDate == InitDate /\ [][NextDate]_vars

-----------------------------------------------------------------------------
(* Claims about extract_test_date (SpecDate) *)

\* s has the form YYYY-MM-DD
IsYMD(s) ==
    /\ Len(s) = 10
    /\ \A k \in {1, 2, 3, 4, 6, 7, 9, 10} : s[k] \in Digits
    /\ s[5] = "-" /\ s[8] = "-"

\* C3: extract_test_date returns a string of the form YYYY-MM-DD for every
\* text and birthday, when a date other than the birthday is found and
\* when it falls back to the current date.
C3_AlwaysYearMonthDay ==
    pc = "done" => (date_out.kind = "return" /\ IsYMD(date_out.value))

\* the positions, among the matches of the text, of those that differ from
\* the birthday
Differing(t, bday) == { i \in DOMAIN FindAll(t) : FindAll(t)[i] # bday }

\* DD/MM/YYYY rewritten as YYYY-MM-DD, character by character
Rewritten(s) ==
    SubSeq(s, 7, 10) \o << "-" >> \o SubSeq(s, 4, 5) \o << "-" >> \o SubSeq(s, 1, 2)

\* C5: among the DD/MM/YYYY matches of the text in order of appearance,
\* extract_test_date selects the LAST one that differs from the birthday;
\* it falls back to the current date if and only if no match differs from
\* the birthday.
C5_LastDifferingMatchWins ==
    pc = "done" =>
        LET D == Differing(text, user_bday)
            last == CHOOSE i \in D : \A j \in D : j <= i
            fallback == date_out = Return(StrftimeDMY(now))
        IN  /\ fallback <=> D = {}
            /\ D # {} =>
                   \/ date_out = Return(Rewritten(FindAll(text)[last]))
                   \/ /\ date_out.kind = "raise"
                      /\ StrptimeRaises(FindAll(text)[last])

\* C5 witness: the text holds two different dates, neither the birthday,
\* and the result is the later one.
C5_Witness ==
    /\ pc = "done"
    /\ Cardinality(Differing(text, user_bday)) >= 2
    /\ \E i, j \in Differing(text, user_bday) :
           /\ i < j
           /\ FindAll(text)[i] # FindAll(text)[j]
           /\ date_out = Return(Rewritten(FindAll(text)[j]))

-----------------------------------------------------------------------------
(* parse_blood_work_table applied to one set of tables *)

\* a row with a header marker that parse_test_row would accept as data
HeaderRow ==
    << << "R", "e", "z", "u", "l", "t", "a", "t", "i" >>, << "1", "2", " ", "h" >> >>
RowGlu == << << "G", "l", "u" >>, << "9", "5", " ", "m", "g", "/", "d", "L" >> >>
\* no reading: parse_test_row returns None
RowNeg == << << "H", "b" >>, << "n", "e", "g" >> >>

RowPool == { HeaderRow, RowGlu, RowNeg }

\* the sequences of at most k tables that hold at most budget rows together
RECURSIVE TableSeqs(_, _)
TableSeqs(k, budget) ==
    IF k = 0 THEN { << >> }
    ELSE { << >> } \cup
         UNION { { << t >> \o rest : rest \in TableSeqs(k - 1, budget - Len(t)) } :
                 t \in SeqsUpTo(RowPool, budget) }

PatientName == << "A", "n", "a" >>

InitTable ==
    /\ pc = "parse_blood_work_table"
    /\ tables \in TableSeqs(MaxTables, MaxRows)
    /\ record = Idle
    /\ IdleRow /\ IdleDate /\ IdleStore /\ IdleUpload

ParseBloodWorkTable ==
    /\ pc = "parse_blood_work_table"
    /\ record' = parse_blood_work_table(
                     [full_text |-> << >>, tables |-> tables, date |-> TestDate],
                     PatientName)
    /\ pc' = "done"
    /\ UNCHANGED << row, test_result, text, user_bday, now, date_out, tables,
                    write_ok, db, store_ret, file, extracted_data, exc,
                    events, response >>

NextTable == ParseBloodWorkTable

SpecTable == InitTable /\ [][NextTable]_vars

-----------------------------------------------------------------------------
(* Claims about parse_blood_work_table (SpecTable) *)

\* no row of the table holds a header marker
Headerless(table) ==
    \A i \in DOMAIN table :
        /\ ~Contains(RowText(table[i]), REZULTATI)
        /\ ~Contains(RowText(table[i]), VLERAT_REFERUESE)

\* the results parse_test_row gives for the rows of rs, rejected rows left out
Accepted(rs) ==
    LET kept == SelectSeq(rs, LAMBDA r : parse_test_row(r, TestDate) # NoResult)
    IN  [i \in DOMAIN kept |-> parse_test_row(kept[i], TestDate)]

RECURSIVE AcceptedOfAllRows(_)
AcceptedOfAllRows(ts) ==
    IF ts = << >> THEN << >>
    ELSE Accepted(Head(ts)) \o AcceptedOfAllRows(Tail(ts))

\* C2: when no row of any table holds a header marker, every row of every
\* table, row 0 included, is parsed as a data row, so the record's results
\* are the accepted results of all the rows.
C2_HeaderlessTableKeepsRowZero ==
    (pc = "done" /\ \A t \in DOMAIN tables : Headerless(tables[t])) =>
        record.results = AcceptedOfAllRows(tables)

\* the index of the first row that holds a header marker, 0 when none does
DetectedHeader(table) ==
    IF Headerless(table) THEN 0
    ELSE CHOOSE i \in 0..(Len(table) - 1) :
             /\ ~Headerless(<< table[i + 1] >>)
             /\ Len(table[i + 1]) >= 2
             /\ \A j \in 0..(i - 1) :
                    Headerless(<< table[j + 1] >>) \/ Len(table[j + 1]) < 2

RECURSIVE AcceptedAfterHeaders(_)
AcceptedAfterHeaders(ts) ==
    IF ts = << >> THEN << >>
    ELSE Accepted(SubSeq(Head(ts), DetectedHeader(Head(ts)) + 2, Len(Head(ts))))
            \o AcceptedAfterHeaders(Tail(ts))

\* C10: the results of the record are the concatenation, over the tables in
\* order and over the rows strictly after each table's detected header index
\* in order, of the results parse_test_row accepts; a rejected row adds
\* nothing and removes, reorders or prevents no other result.
C10_ResultsAreAcceptedRowsInOrder ==
    pc = "done" => record.results = AcceptedAfterHeaders(tables)

\* C10 witness: two tables both contribute, and in one of them a rejected
\* data row stands before an accepted one.
C10_Witness ==
    /\ pc = "done"
    /\ Len(tables) = 2
    /\ \A t \in 1..2 : TableLoop(tables[t], FirstDataRow(tables[t]), TestDate) # << >>
    /\ \E t \in 1..2 : \E i, j \in DOMAIN tables[t] :
           /\ DetectedHeader(tables[t]) + 1 < i /\ i < j
           /\ Len(tables[t][i]) >= 2
           /\ parse_test_row(tables[t][i], TestDate) = NoResult
           /\ parse_test_row(tables[t][j], TestDate) # NoResult
    /\ Len(record.results) >= 2
    /\ record.results[1] # record.results[2]

-----------------------------------------------------------------------------
(* store_bloodwork_record applied to one record *)

ResultGlu == parse_test_row(RowGlu, TestDate)
\* a result without reference range
ResultBare == parse_test_row(<< << "K" >>, << "7", ".", "5" >> >>, TestDate)
\* a result whose reference_range kept the default None of the dataclass
ResultNoRange ==
    BloodworkResult(<< "N", "a" >>, << 140, 0 >>, << >>, None, TestDate)
\* a result whose value is no number
ResultNoValue == BloodworkResult(<< "H", "b" >>, None, << >>, << >>, TestDate)

ResultPool == { ResultGlu, ResultBare, ResultNoRange, ResultNoValue }

InitStore ==
    /\ pc = "store_bloodwork_record"
    /\ record \in { BloodworkRecord(PatientName, TestDate, rs) :
                       rs \in SeqsUpTo(ResultPool, MaxResults) }
    /\ write_ok \in BOOLEAN
    /\ db = << >>
    /\ store_ret = Idle
    /\ tables = Idle
    /\ IdleRow /\ IdleDate /\ IdleUpload

StoreBloodworkRecord ==
    /\ pc = "store_bloodwork_record"
    /\ db' = db \o store_bloodwork_record(record, write_ok).writes
    /\ store_ret' = store_bloodwork_record(record, write_ok).ret
    /\ pc' = "done"
    /\ UNCHANGED << row, test_result, text, user_bday, now, date_out, tables,
                    record, write_ok, file, extracted_data, exc, events,
                    response >>

NextStore == StoreBloodworkRecord

SpecStore == InitStore /\ [][NextStore]_vars

-----------------------------------------------------------------------------
(* Claims about store_bloodwork_record (SpecStore) *)

\* every value of the record is a number, so every point can be built
Constructible(rec) == \A i \in DOMAIN rec.results : rec.results[i].value # None

\* p is the point of result r of record rec
IsPointOf(p, r, rec) ==
    /\ p.time = rec.test_date
    /\ p.fields = [value |-> r.value]
    /\ p.tags.patient_name = rec.patient_name
    /\ p.tags.test_name = r.test_name
    /\ p.tags.unit = r.unit
    /\ IF r.reference_range = None \/ r.reference_range = << >>
       THEN DOMAIN p.tags = {"patient_name", "test_name", "unit"}
       ELSE /\ DOMAIN p.tags =
                  {"patient_name", "test_name", "unit", "reference_range"}
            /\ p.tags.reference_range = r.reference_range

\* C8: store_bloodwork_record builds one point per result of the record, in
\* order, each timed at record.test_date and tagged with reference_range
\* only when that is non-empty, and hands all of them to the client in one
\* write call; it returns True when that call completes and False, without
\* raising, when building a point or the write fails.
C8_OnePointPerResultOneWrite ==
    pc = "done" =>
        /\ store_ret.kind = "return"
        /\ Len(db) <= 1
        /\ Constructible(record) =>
               /\ Len(db) = 1
               /\ Len(db[1].points) = Len(record.results)
               /\ \A i \in DOMAIN record.results :
                      IsPointOf(db[1].points[i], record.results[i], record)
               /\ store_ret.value = db[1].completed
        /\ ~Constructible(record) => (db = << >> /\ store_ret.value = FALSE)

\* C8 witness: a record of several results, with and without a reference
\* range, was written in one call that completed.
C8_Witness ==
    /\ pc = "done"
    /\ Len(record.results) >= 2
    /\ \E i, j \in DOMAIN record.results :
           /\ Truthy(record.results[i].reference_range)
           /\ ~Truthy(record.results[j].reference_range)
    /\ Len(db) = 1
    /\ Len(db[1].points) = Len(record.results)
    /\ store_ret = Return(TRUE)

-----------------------------------------------------------------------------
(* handle_bloodwork: one upload, step by step *)

Filename == << "r", ".", "p", "d", "f" >>

UploadTables ==
    { << >>,
      << << HeaderRow, RowGlu >> >>,
      << << RowGlu, HeaderRow, HeaderRow, RowNeg, RowGlu >>, << >>,
         << RowNeg, RowGlu >> >> }

Files ==
    [ filename : { Filename },
      content_len : { 2048, max_size + 1 },
      readable : BOOLEAN,
      full_text : { << >>, DateA, Birthday \o << " " >> \o DateBad },
      tables : UploadTables ]

\* the call events of one upload
Called(name) == [call |-> name]
CalledWith(name, arg) == [call |-> name, arg |-> arg]

Init ==
    /\ pc = "extract"
    /\ file \in Files
    /\ user_bday \in { None, Birthday }
    /\ now \in Todays
    /\ write_ok \in BOOLEAN
    /\ extracted_data = Idle
    /\ exc = Idle
    /\ record = Idle
    /\ db = << >>
    /\ store_ret = Idle
    /\ events = << >>
    /\ response = Idle
    /\ text = Idle /\ date_out = Idle /\ tables = Idle
    /\ IdleRow

\* line 16 of bloodwork.py: extracted_data = await extract_pdf_data(...)
Extract ==
    /\ pc = "extract"
    /\ events' = Append(events, Called("extract_pdf_data"))
    /\ IF extract_pdf_data(file, user_bday, now).kind = "raise"
       THEN /\ exc' = extract_pdf_data(file, user_bday, now).value
            /\ pc' = "except"
            /\ UNCHANGED extracted_data
       ELSE /\ extracted_data' = extract_pdf_data(file, user_bday, now).value
            /\ pc' = "check"
            /\ UNCHANGED exc
    /\ UNCHANGED << row, test_result, text, user_bday, now, date_out, tables,
                    record, write_ok, db, store_ret, file, response >>

\* lines 18-22 of bloodwork.py: no tables raises the 400
CheckTables ==
    /\ pc = "check"
    /\ IF TablesMissing(extracted_data)
       THEN /\ exc' = StrHTTPException(NoTableData)
            /\ pc' = "except"
       ELSE /\ pc' = "assemble"
            /\ UNCHANGED exc
    /\ UNCHANGED << row, test_result, text, user_bday, now, date_out, tables,
                    record, write_ok, db, store_ret, file, extracted_data,
                    events, response >>

\* line 23 of bloodwork.py: parsed_data = parse_blood_work_table(...)
Assemble ==
    /\ pc = "assemble"
    /\ record' = parse_blood_work_table(extracted_data, PatientName)
    /\ events' = Append(events,
                        CalledWith("parse_blood_work_table",
                                   parse_blood_work_table(extracted_data,
                                                          PatientName)))
    /\ pc' = "store"
    /\ UNCHANGED << row, test_result, text, user_bday, now, date_out, tables,
                    write_ok, db, store_ret, file, extracted_data, exc,
                    response >>

\* line 25 of bloodwork.py: db.store_bloodwork_record(parsed_data)
Store ==
    /\ pc = "store"
    /\ db' = db \o store_bloodwork_record(record, write_ok).writes
    /\ store_ret' = store_bloodwork_record(record, write_ok).ret
    /\ events' = Append(events, CalledWith("store_bloodwork_record", record))
    /\ pc' = "return"
    /\ UNCHANGED << row, test_result, text, user_bday, now, date_out, tables,
                    record, write_ok, file, extracted_data, exc, response >>

\* lines 27-33 of bloodwork.py: the dict that handle_bloodwork returns
SuccessResult(f, rec) ==
    [filename |-> f.filename, test_date |-> rec.test_date,
     name |-> PatientName, results |-> rec.results,
     message |-> "Blood work parsed successfully"]

\* a handler that raises when store_bloodwork_record returned False
UploadOutcomeChecked(f, rec, ret) ==
    IF ret = Return(TRUE) THEN Return(SuccessResult(f, rec))
    ELSE Raise(ErrorProcessing(<< "Could not store bloodwork record" >>))

\* lines 25-33 of bloodwork.py: the value ret of store_bloodwork_record is
\* dropped at line 25, and the dict is returned
UploadOutcome(f, rec, ret) == Return(SuccessResult(f, rec))

\* lines 27-33 of bloodwork.py: the success result
ReturnResult ==
    /\ pc = "return"
    /\ response' = UploadOutcome(file, record, store_ret)
    /\ pc' = "done"
    /\ UNCHANGED << row, test_result, text, user_bday, now, date_out, tables,
                    record, write_ok, db, store_ret, file, extracted_data,
                    exc, events >>

\* lines 35-40 of bloodwork.py: except Exception as e, for the exception of
\* extract_pdf_data and for the 400 of line 19 alike
Except ==
    /\ pc = "except"
    /\ response' = Raise(ErrorProcessing(exc))
    /\ pc' = "done"
    /\ UNCHANGED << row, test_result, text, user_bday, now, date_out, tables,
                    record, write_ok, db, store_ret, file, extracted_data,
                    exc, events >>

Next ==
    \/ Extract
    \/ CheckTables
    \/ Assemble
    \/ Store
    \/ ReturnResult
    \/ Except

Spec == Init /\ [][Next]_vars

-----------------------------------------------------------------------------
(* Claims about handle_bloodwork (Spec) *)

\* the extraction library can read the upload: the file is within the size
\* limit, is a readable PDF, and the date found on its first page exists
Extractable ==
    /\ file.content_len <= max_size
    /\ file.readable
    /\ \/ Differing(file.full_text, user_bday) = {}
       \/ ~StrptimeRaises(
              ScanDates(FindAll(file.full_text), user_bday, None))

\* the names of the calls made so far, in order
Calls == [i \in DOMAIN events |-> events[i].call]

\* C7: an upload whose extraction succeeds with an empty table set fails
\* with the client error 400 "No table data found in PDF"; an upload whose
\* PDF cannot be read fails with a different error; and in neither case is a
\* record assembled or stored.
C7_NoTablesIs400AndDistinct ==
    pc = "done" =>
        /\ (Extractable /\ file.tables = << >>) =>
               /\ response = Raise(NoTableData)
               /\ Calls = << "extract_pdf_data" >>
               /\ db = << >>
        /\ ~Extractable =>
               /\ response.kind = "raise"
               /\ response # Raise(NoTableData)
               /\ Calls = << "extract_pdf_data" >>
               /\ db = << >>

\* C9: in every upload the calls are made in the order extract, assemble,
\* store: the record is built exactly once, is the same from its assembly
\* on, and is stored exactly once, as built, when extraction yields tables;
\* nothing is assembled or stored when extraction fails or yields no table.
C9_ExtractAssembleStoreOnce ==
    /\ \E n \in 0..3 :
           Calls = SubSeq(<< "extract_pdf_data", "parse_blood_work_table",
                             "store_bloodwork_record" >>, 1, n)
    /\ Len(events) >= 2 => record = events[2].arg
    /\ Len(events) >= 3 => events[3].arg = events[2].arg
    /\ Len(events) < 2 => record = Idle
    /\ pc = "done" =>
           IF Extractable /\ file.tables # << >>
           THEN Len(events) = 3 /\ Len(db) = 1
           ELSE Len(events) = 1 /\ db = << >>

\* C9 witness: an upload with tables ended after the three calls, the
\* stored record being the assembled one, with results in it.
C9_Witness ==
    /\ pc = "done"
    /\ Calls = << "extract_pdf_data", "parse_blood_work_table",
                  "store_bloodwork_record" >>
    /\ events[3].arg = record
    /\ Len(record.results) >= 2
    /\ Len(db) = 1

\* the record an upload assembles, from the upload's inputs alone
RecordOfUpload ==
    parse_blood_work_table(extract_pdf_data(file, user_bday, now).value,
                           PatientName)

\* C11: the outcome of an upload does not depend on the boolean that
\* store_bloodwork_record returns: once the record is stored, whether the
\* write completed (True) or failed (False), the upload returns, without
\* raising, "Blood work parsed successfully" with the parsed results, the
\* same result for both values.
C11_OutcomeIgnoresStoreResult ==
    (pc = "done" /\ Len(events) = 3) =>
        /\ store_ret \in { Return(TRUE), Return(FALSE) }
        /\ response.kind = "return"
        /\ response.value.message = "Blood work parsed successfully"
        /\ response.value.results = RecordOfUpload.results
        /\ response.value.test_date = RecordOfUpload.test_date
        /\ response.value.filename = file.filename
        /\ response.value.name = PatientName

\* C11 witness: the write failed, store_bloodwork_record returned False, and
\* the upload still returned the success result with results in it.
C11_Witness ==
    /\ pc = "done"
    /\ Len(db) = 1
    /\ ~db[1].completed
    /\ store_ret = Return(FALSE)
    /\ response.kind = "return"
    /\ response.value.message = "Blood work parsed successfully"
    /\ Len(response.value.results) >= 2

====
